---- MODULE Spec2Model ----
(***************************************************************************)
(* Model of NovelDownloader (src/src/tmp.py): the chapter fetcher          *)
(* (_download_chapter, _download_chapter_content), the result loop of the  *)
(* format-specific downloads (_download_txt and the store-less             *)
(* _download_epub / _download_latex), the per-book JSON store file and     *)
(* download_novel around them.                                             *)
(*                                                                         *)
(* One book is downloaded.  Its canonical chapter list is 1..NumChapters   *)
(* in reading order; key 0 of a store record is the reserved "_metadata"   *)
(* key.  A dict is a sequence of [k, v] pairs in insertion order, which is *)
(* the order Python iterates a dict and json.dump writes it in.            *)
(***************************************************************************)
EXTENDS Integers, Sequences, FiniteSets, TLC

\* ---- bounds of the model: the longest chapter list, the pool size, and for
\* the downloads that are repeated or meet every kind of answer from the
\* site, the length of the chapter list and the number of calls
NumChapters == 5
MaxWorkers == 2
SmallBook == 2
MaxRuns == 2
MaxTail == 5
ShortText == 2
PrefixLen == 6

\* ---- constants of the program
Retries == 3
Attempts == 3
SaveEvery == 5
CsLimit == 5
TcsLimit == 7
DefaultXc == 1

Titles == 1..NumChapters
Meta == 0
Workers == 1..MaxWorkers
SaveModes == {"SINGLE_TXT", "EPUB", "LATEX"}

\* ---- values held by a dict entry or returned by a fetch
\* text served by the site during run r (non-empty), the empty string,
\* the literal string 'err', the metadata block written by run r, None
Text(r) == [kind |-> "text", run |-> r]
Empty == [kind |-> "empty", run |-> 0]
ErrStr == [kind |-> "err", run |-> 0]
MetaBlock(r) == [kind |-> "meta", run |-> r]
None == [kind |-> "none", run |-> 0]

\* Python truthiness of a value: '' and None are falsy
Truthy(v) == v.kind \notin {"empty", "none"}

\* ---- ordered dicts
EmptyDict == << >>
Keys(d) == {d[i].k : i \in 1..Len(d)}
Has(d, k) == \E i \in 1..Len(d) : d[i].k = k
Get(d, k) == d[CHOOSE i \in 1..Len(d) : d[i].k = k].v
\* d[k] = v: an existing key keeps its place, a new key goes last
Put(d, k, v) ==
    IF Has(d, k)
    THEN [i \in 1..Len(d) |-> IF d[i].k = k THEN [k |-> k, v |-> v] ELSE d[i]]
    ELSE Append(d, [k |-> k, v |-> v])
KeyOrder(d) == [i \in 1..Len(d) |-> d[i].k]
\* the chapter entries of a dict, the reserved key left out
ChapterKeys(d) == Keys(d) \ {Meta}
ChapterOrder(d) == SelectSeq(KeyOrder(d), LAMBDA k : k # Meta)

\* ---- the store file of the book: absent, a complete JSON document, or
\* opened for writing (truncated) with the document not yet written out
NoFile == [st |-> "absent", rec |-> EmptyDict]
Truncated == [st |-> "partial", rec |-> EmptyDict]
FileOf(d) == [st |-> "ok", rec |-> d]

VARIABLES
    disk,       \* the book's store file (bookstore/<name>.json)
    run,        \* number of download_novel calls made so far
    mode,       \* config.save_mode of the current call
    xc,         \* config.xc, the size of the worker pool
    opc,        \* position of the thread running download_novel
    ret,        \* what the last download_novel call returned
    existing,   \* existing_content handed to every _download_chapter
    content,    \* content / epub_chapters / chapter_contents of the loop
    completed,  \* completed_chapters
    nextTask,   \* next chapter of the executor's work queue
    fut,        \* the future of each chapter
    early,      \* futures already finished when as_completed was called
    doneQ,      \* futures finished since, in completion order
    wk,         \* the pool's worker threads
    zj, cs, tcs, refreshes, path,  \* self.zj, self.cs, self.tcs, cookie.get calls, self.book_json_path
    artifact,   \* chapter order of the output file written by the renderer
    safe,       \* chapters in the file at run start or written by a finished checkpoint
    atStart,    \* the store file as the current run found it
    netReq,     \* chapters an endpoint request was issued for in this run
    prev,       \* how the previous run ended
    events,     \* the calls of progress_callback made by the current run
    chapter_title, \* chapter_title of the iteration writing a periodic save (0: none)
    page,       \* what the book page held when _get_chapter_list read it
    returned,   \* what the last download_novel call returned: True, False, or none yet
    fallback,   \* the run of the structural fallback: its input, position, depth counter and result
    call,       \* the call of _download_chapter_content followed request by request
    reported,   \* titles the result loop logged as failed chapter downloads (lines 262, 340)
    book        \* the book on the site: length of its chapter list, how the
                \* site answers, how many calls of download_novel are made, and
                \* whether its status label says the serialization is finished

vars == <<disk, run, mode, xc, opc, ret, existing, content, completed, nextTask,
          fut, early, doneQ, wk, zj, cs, tcs, refreshes, path, artifact,
          safe, atStart, netReq, prev, events, chapter_title, page, returned, fallback, call, reported, book>>

\* the downloads checked: a long book downloaded once from a steady site,
\* short books downloaded repeatedly from a mixed site, and a one-chapter book
\* downloaded repeatedly from a site that answers in any way (SiteRuns)
Books ==
    {[total |-> NumChapters, site |-> "steady", calls |-> 1, finished |-> FALSE]}
    \cup {[total |-> k, site |-> "mixed", calls |-> MaxRuns, finished |-> FALSE] : k \in 2..SmallBook}
    \cup {[total |-> 1, site |-> "any", calls |-> MaxRuns, finished |-> FALSE]}

\* ---- NovelDownloader.__init__ (lines 73-78) and the state before any call
IdleWorker == [pc |-> "idle", ch |-> 0, retries |-> 0, n |-> 0, err |-> "none",
               val |-> None, k |-> 0, seen |-> 0]
QueuedFuture == [st |-> "queued", val |-> None, err |-> "none"]
NoRun == [mode |-> "none", end |-> "none", safe |-> {}]
\* the book page: was it read, and did it hold chapter links, a title (h1)
\* and a status label
NoPage == [read |-> FALSE, links |-> FALSE, title |-> FALSE, status |-> FALSE]
Pages == [read : {TRUE}, links : BOOLEAN, title : BOOLEAN, status : BOOLEAN]

\* no call of the structural fallback in progress
NoFallback == [pc |-> "none", content |-> << >>, pos |-> 1, tmp |-> 1, result |-> << >>]

\* no call of _download_chapter_content followed request by request
NoCall == [pc |-> "none", test_mode |-> FALSE, attempt |-> 0, log |-> << >>, out |-> "none"]

InitWith(books) ==
    /\ disk = NoFile
    /\ run = 0
    /\ mode = "none"
    /\ xc \in DefaultXc..MaxWorkers
    /\ opc = "idle"
    /\ ret = "none"
    /\ existing = EmptyDict
    /\ content = EmptyDict
    /\ completed = 0
    /\ nextTask = 1
    /\ fut = [c \in Titles |-> QueuedFuture]
    /\ early = {}
    /\ doneQ = << >>
    /\ wk = [w \in Workers |-> IdleWorker]
    /\ zj = EmptyDict
    /\ cs = 0
    /\ tcs = 0
    /\ refreshes = 0
    /\ path = "None"
    /\ artifact = << >>
    /\ safe = {}
    /\ atStart = NoFile
    /\ netReq = {}
    /\ prev = NoRun
    /\ events = << >>
    /\ chapter_title = 0
    /\ page = NoPage
    /\ returned = "none"
    /\ reported = {}
    /\ book \in books

Init == InitWith(Books) /\ fallback = NoFallback /\ call = NoCall

\* ---- what the site and the charset table do during one attempt: the reader
\* page request succeeds (primary), the api request succeeds (secondary),
\* utils.decode_content succeeds in mode 0 (d0) and in mode 1 (d1), and the
\* kind of string that is obtained in the end (out)
GoodEnvs(outs) ==
    {[primary |-> TRUE, secondary |-> FALSE, d0 |-> d[1], d1 |-> d[2], out |-> o] :
        d \in {<<TRUE, TRUE>>, <<FALSE, TRUE>>, <<FALSE, FALSE>>}, o \in outs}
    \cup {[primary |-> FALSE, secondary |-> TRUE, d0 |-> TRUE, d1 |-> TRUE, out |-> o] :
        o \in outs}
BadEnvs ==
    {[primary |-> FALSE, secondary |-> TRUE, d0 |-> FALSE, d1 |-> TRUE, out |-> "text"],
     [primary |-> FALSE, secondary |-> FALSE, d0 |-> FALSE, d1 |-> FALSE, out |-> "text"]}
\* what one call of _download_chapter_content meets: failing attempts, then a
\* working one unless all of them fail
RECURSIVE EnvRuns(_, _)
EnvRuns(k, outs) ==
    IF k = 0 THEN {<< >>}
    ELSE {<<g>> : g \in GoodEnvs(outs)}
         \cup {<<b>> \o t : b \in BadEnvs, t \in EnvRuns(k - 1, outs)}
Works == [primary |-> TRUE, secondary |-> FALSE, d0 |-> TRUE, d1 |-> TRUE, out |-> "text"]
Down == [primary |-> FALSE, secondary |-> FALSE, d0 |-> FALSE, d1 |-> FALSE, out |-> "text"]
Blank == [primary |-> TRUE, secondary |-> FALSE, d0 |-> TRUE, d1 |-> TRUE, out |-> "empty"]
\* a steady site answers a whole call the same way; a mixed one answers each
\* request and decodes each page in any way; any: the decoded page may also
\* be the string 'err'; blank: every request is answered, some pages hold no
\* paragraph text
SiteRuns(site) ==
    CASE site = "steady" -> {<<Works>>, [i \in 1..Attempts |-> Down]}
      [] site = "mixed" -> EnvRuns(Attempts, {"text", "empty"})
      [] site = "any" -> EnvRuns(Attempts, {"text", "empty", "err"})
      [] site = "blank" -> {<<Works>>, <<Blank>>}

Value(o, r) == IF o = "text" THEN Text(r) ELSE IF o = "empty" THEN Empty ELSE ErrStr

Returned(v, how) == [ok |-> TRUE, val |-> v, err |-> "none", via |-> how, n |-> 1]
Raised(e) == [ok |-> FALSE, val |-> None, err |-> e, via |-> "none", n |-> 1]

\* ---- _download_chapter_content
\* lines 657-677: mode 0, then mode 1, then the tag-stripping loop
decode_primary(env, r) ==
    IF env.d0 THEN Returned(Value(env.out, r), "mode0")
    ELSE IF env.d1 THEN Returned(Value(env.out, r), "mode1")
    ELSE Returned(Value(env.out, r), "fallback")

\* lines 681-692: the api request, json.loads and decode in mode 0 only, all
\* under one bare except
try_secondary(env, r) ==
    IF ~env.secondary THEN Raised("transport")
    ELSE IF env.d0 THEN Returned(Value(env.out, r), "mode0")
    ELSE Raised("decode")

\* lines 639-692: one iteration of `for attempt in range(3)`
attempt_once(env, r) ==
    IF env.primary THEN decode_primary(env, r) ELSE try_secondary(env, r)

\* lines 638-697: the loop; n is the number of iterations made
RECURSIVE content_loop(_, _, _)
content_loop(es, attempt, r) ==
    LET o == attempt_once(es[attempt + 1], r) IN
    IF o.ok \/ attempt = Attempts - 1
    THEN [o EXCEPT !.n = attempt + 1]
    ELSE content_loop(es, attempt + 1, r)
download_chapter_content(es, r) == content_loop(es, 0, r)

\* ---- _download_chapter
\* lines 363-365
in_store(title, existing_content) == Has(existing_content, title)

\* an except branch that forgets to count
retries_kept(retries) == retries

\* lines 399-405: retries left after an exception in the while body
retries_after(retries) == retries - 1
gives_up(retries) == retries_after(retries) = 0

\* lines 391-392
checkpoint_due(counter) == counter >= CsLimit

\* utils.save_progress(self, title, content): the accumulated chapters go to
\* the current book's store file
save_progress_zj(z, title, v) == Put(z, title, v)

\* ---- the worker threads of the ThreadPoolExecutor (line 240)
Running == opc \in {"submit", "loop", "ckptW", "unwind"}

\* a future gets its result or its exception; as_completed, once called,
\* queues it in completion order
Finished(c, f) ==
    /\ fut' = [fut EXCEPT ![c] = f]
    /\ doneQ' = IF opc = "submit" THEN doneQ ELSE Append(doneQ, c)

\* lines 399-408 for worker w after an exception of kind e in a pass that
\* made k attempts
Except(w, e, k) ==
    IF gives_up(wk[w].retries)
    THEN /\ Finished(wk[w].ch, [st |-> "raised", val |-> None, err |-> e])
         /\ wk' = [wk EXCEPT ![w] = IdleWorker]
    ELSE /\ wk' = [wk EXCEPT ![w] = [IdleWorker EXCEPT
                      !.pc = "fetch", !.ch = wk[w].ch, !.retries = retries_after(wk[w].retries),
                      !.n = wk[w].n + k, !.err = e]]
         /\ UNCHANGED <<fut, doneQ>>

\* a pool that starts a thread per submitted task
all_threads(max_workers) == Workers

\* ThreadPoolExecutor(max_workers=self.config.xc), lines 240, 316, 486, 540:
\* the threads the pool may start
pool_threads(max_workers) == 1..max_workers

\* a worker takes the next task and runs lines 361-369 of _download_chapter
WorkerStart(w) ==
    /\ Running
    /\ w \in pool_threads(xc)
    /\ wk[w].pc = "idle"
    /\ nextTask <= book.total
    /\ nextTask' = nextTask + 1
    /\ IF in_store(nextTask, existing)
       THEN /\ zj' = Put(zj, nextTask, Get(existing, nextTask))
            /\ Finished(nextTask, [st |-> "done", val |-> Get(existing, nextTask), err |-> "none"])
            /\ wk' = wk
       ELSE /\ wk' = [wk EXCEPT ![w] = [IdleWorker EXCEPT
                         !.pc = "fetch", !.ch = nextTask, !.retries = Retries]]
            /\ UNCHANGED <<zj, fut, doneQ>>
    /\ UNCHANGED <<disk, run, mode, xc, book, opc, ret, existing, content, completed, early, cs, tcs, refreshes, path, artifact, safe, atStart, netReq, prev, events, chapter_title, page, returned, fallback, call, reported>>

\* lines 374-397 for worker w once _download_chapter_content returned v after
\* k attempts; loaded: the value `self.cs += 1` (line 391) read from self.cs
AfterContent(w, v, k, loaded) ==
    IF v = ErrStr
    THEN \* lines 374-375
         /\ Except(w, "errstr", k)
         /\ UNCHANGED <<zj, cs, tcs, refreshes, disk, safe>>
    ELSE IF v = ErrStr
    THEN \* lines 383-388
         /\ IF tcs + 1 > TcsLimit
            THEN tcs' = 0 /\ refreshes' = refreshes + 1
            ELSE tcs' = tcs + 1 /\ refreshes' = refreshes
         /\ UNCHANGED <<wk, fut, doneQ, zj, cs, disk, safe>>
    ELSE IF checkpoint_due(loaded + 1)
    THEN \* lines 391-394
         /\ cs' = 0
         /\ UNCHANGED <<tcs, refreshes>>
         /\ IF path = "None"
            THEN /\ Except(w, "persist", k)
                 /\ UNCHANGED <<zj, disk, safe>>
            ELSE /\ zj' = save_progress_zj(zj, wk[w].ch, v)
                 /\ disk' = FileOf(zj')
                 /\ safe' = safe \cup ChapterKeys(zj')
                 /\ Finished(wk[w].ch, [st |-> "done", val |-> v, err |-> "none"])
                 /\ wk' = [wk EXCEPT ![w] = IdleWorker]
    ELSE \* lines 391-397
         /\ cs' = loaded + 1
         /\ zj' = Put(zj, wk[w].ch, v)
         /\ Finished(wk[w].ch, [st |-> "done", val |-> v, err |-> "none"])
         /\ wk' = [wk EXCEPT ![w] = IdleWorker]
         /\ UNCHANGED <<tcs, refreshes, disk, safe>>

\* one pass of the while body (line 371): a call of _download_chapter_content
\* and what follows its return or its exception, with no other thread running
\* in between
Attempt(w) ==
    /\ Running
    /\ wk[w].pc = "fetch"
    /\ netReq' = netReq \cup {wk[w].ch}
    /\ \E o \in {download_chapter_content(es, run) : es \in SiteRuns(book.site)} :
         IF o.ok THEN AfterContent(w, o.val, o.n, cs)
         ELSE /\ Except(w, o.err, o.n)
              /\ UNCHANGED <<zj, cs, tcs, refreshes, disk, safe>>
    /\ UNCHANGED <<run, mode, xc, book, opc, ret, existing, content, completed, nextTask, early,
                   path, artifact, atStart, prev, events, chapter_title, page, returned, fallback, call, reported>>

\* the same pass when the threads of the pool interleave: `self.cs += 1` is a
\* load of self.cs and, later, a store of the loaded value plus one, and no
\* lock is held in between.  AttemptLoad runs the pass up to the load,
\* AttemptStore from the store on.
AttemptLoad(w) ==
    /\ Running
    /\ wk[w].pc = "fetch"
    /\ netReq' = netReq \cup {wk[w].ch}
    /\ \E o \in {download_chapter_content(es, run) : es \in SiteRuns(book.site)} :
         IF o.ok /\ o.val # ErrStr
         THEN /\ wk' = [wk EXCEPT ![w].pc = "incr", ![w].val = o.val, ![w].k = o.n,
                                   ![w].seen = cs]
              /\ UNCHANGED <<fut, doneQ, zj, cs, tcs, refreshes, disk, safe>>
         ELSE IF o.ok THEN AfterContent(w, o.val, o.n, cs)
         ELSE /\ Except(w, o.err, o.n)
              /\ UNCHANGED <<zj, cs, tcs, refreshes, disk, safe>>
    /\ UNCHANGED <<run, mode, xc, book, opc, ret, existing, content, completed, nextTask, early,
                   path, artifact, atStart, prev, events, chapter_title, page, returned, fallback, call, reported>>

AttemptStore(w) ==
    /\ Running
    /\ wk[w].pc = "incr"
    /\ AfterContent(w, wk[w].val, wk[w].k, wk[w].seen)
    /\ UNCHANGED <<run, mode, xc, book, opc, ret, existing, content, completed, nextTask, early,
                   path, artifact, atStart, prev, events, chapter_title, page, returned, netReq, fallback, call, reported>>

\* ---- download_novel and the format-specific download it dispatches to
UsesStore(m) == m = "SINGLE_TXT"

\* a merge that starts from the metadata alone
metadata_only(loaded, r) == Put(EmptyDict, Meta, MetaBlock(r))

\* lines 211-218 and 226-227: existing_content.update(metadata)
merge_metadata(loaded, r) == Put(loaded, Meta, MetaBlock(r))

\* a loop that folds no result into content
keeps_nothing(v) == FALSE

\* lines 255-258: is the result kept, is a checkpoint written after it
keeps(v) == Truthy(v)
periodic_save_due(completed_chapters) == completed_chapters % SaveEvery = 0

\* lines 436 and 449 (content.items()), line 346 (epub_chapters as appended)
\* and line 569 (sorted by the index in the chapter list): the chapter order
\* of the output file
InListOrder(S) ==
    LET RECURSIVE Asc(_, _)
        Asc(k, acc) ==
            IF k > NumChapters THEN acc
            ELSE Asc(k + 1, IF k \in S THEN Append(acc, k) ELSE acc)
    IN Asc(1, << >>)
render_order(m, d) ==
    IF m = "LATEX" THEN InListOrder(ChapterKeys(d)) ELSE ChapterOrder(d)

\* a download_novel that reports an escaped exception as a success
returns_true_unless_err(status) == IF status \in {"noid", "err"} THEN "False" ELSE "True"

\* download_novel, lines 119-145: what it returns when the id was not parsed
\* ("noid"), for the status the format-specific download returned, and when
\* an exception left the try block
download_novel_returns(status) ==
    IF status \in {"noid", "err", "exception"} THEN "False" ELSE "True"

\* a page taken for a book as soon as it holds chapter links
found_by_links(pg) == pg.links

\* _get_chapter_list, lines 615-617 and 625-629: name is not 'err'
chapter_list_found(pg) == pg.links /\ pg.title /\ pg.status

\* what the format-specific download returned to download_novel: 'err' at
\* lines 197, 294, 468, 526, and 's' at lines 442, 461, 354, 514, 579,
\* whatever the status label of the book
status_returned(end, finished) ==
    IF end = "ok" THEN "s" ELSE IF end = "notfound" THEN "err" ELSE "none"

\* lines 133-141: the message download_novel logs for a returned status
\* ('已完结' is written "finished" here)
final_message(status) ==
    IF status = "err" THEN "not found"
    ELSE IF status = "finished" THEN "novel finished"
    ELSE "download complete"

\* utils.update_records(self.record_path, novel_id), line 123: the list of
\* requested books kept in data/record.json; the files of the book (its store
\* file, its output file) are not touched
update_records(bookFile) == bookFile

Fresh == zj' = EmptyDict /\ cs' = 0 /\ tcs' = 0 /\ path' = "None" /\ refreshes' = 0

\* a call of download_novel, on this instance or (fresh) on one just
\* constructed; parsed: utils.parse_novel_id gave an id (lines 118-120);
\* pg: the book page _get_chapter_list reads (lines 608-631)
StartRun(m, parsed, pg, fresh) ==
    /\ opc = "idle"
    /\ run < book.calls
    /\ run' = run + 1
    /\ mode' = m
    /\ prev' = IF ret = "killed" THEN prev ELSE [mode |-> mode, end |-> ret, safe |-> safe]
    /\ atStart' = disk
    /\ safe' = IF disk.st = "ok" THEN ChapterKeys(disk.rec) ELSE {}
    /\ netReq' = {}
    /\ completed' = 0
    /\ nextTask' = 1
    /\ fut' = [c \in Titles |-> QueuedFuture]
    /\ early' = {}
    /\ doneQ' = << >>
    /\ artifact' = << >>
    /\ events' = << >>
    /\ chapter_title' = 0
    /\ reported' = {}
    /\ UNCHANGED <<xc, book, wk, fallback, call>>
    /\ IF ~parsed
       THEN \* lines 119-120
            /\ ret' = "badid"
            /\ returned' = download_novel_returns("noid")
            /\ opc' = "idle"
            /\ page' = NoPage
            /\ existing' = EmptyDict
            /\ content' = EmptyDict
            /\ IF fresh THEN Fresh ELSE UNCHANGED <<zj, cs, tcs, path, refreshes>>
            /\ UNCHANGED disk
       ELSE IF ~chapter_list_found(pg)
       THEN \* lines 123, 196-197 and 133-135
            /\ ret' = "notfound"
            /\ returned' = download_novel_returns("err")
            /\ opc' = "idle"
            /\ page' = pg
            /\ existing' = EmptyDict
            /\ content' = EmptyDict
            /\ IF fresh THEN Fresh ELSE UNCHANGED <<zj, cs, tcs, path, refreshes>>
            /\ disk' = update_records(disk)
       ELSE IF UsesStore(m)
       THEN \* lines 123, 203-232
            /\ page' = pg
            /\ path' = "book"
            /\ zj' = EmptyDict
            /\ cs' = 0
            /\ tcs' = 0
            /\ refreshes' = IF fresh THEN 0 ELSE refreshes
            /\ CASE disk.st = "ok" ->
                      /\ existing' = merge_metadata(disk.rec, run')
                      /\ content' = existing'
                      /\ opc' = "submit"
                      /\ ret' = "none"
                      /\ returned' = "none"
                      /\ disk' = update_records(disk)
                 [] disk.st = "partial" ->
                      \* json.load raises; lines 143-145
                      /\ existing' = EmptyDict
                      /\ content' = EmptyDict
                      /\ opc' = "idle"
                      /\ ret' = "error"
                      /\ returned' = download_novel_returns("exception")
                      /\ disk' = update_records(disk)
                 [] disk.st = "absent" ->
                      /\ existing' = merge_metadata(EmptyDict, run')
                      /\ content' = EmptyDict
                      /\ disk' = Truncated
                      /\ opc' = "initW"
                      /\ ret' = "none"
                      /\ returned' = "none"
       ELSE \* lines 123, 310-324, 534-548: no store, existing_content = {}
            /\ page' = pg
            /\ existing' = EmptyDict
            /\ content' = EmptyDict
            /\ opc' = "submit"
            /\ ret' = "none"
            /\ returned' = "none"
            /\ IF fresh THEN Fresh ELSE UNCHANGED <<zj, cs, tcs, path, refreshes>>
            /\ disk' = update_records(disk)

\* line 232: json.dump of the initial metadata, then line 239
InitDump ==
    /\ opc = "initW"
    /\ disk' = FileOf(existing)
    /\ content' = existing
    /\ opc' = "submit"
    /\ UNCHANGED <<run, mode, xc, book, ret, existing, completed, nextTask, fut, early, doneQ, wk, zj, cs, tcs, refreshes, path, artifact, safe, atStart, netReq, prev, events, chapter_title, page, returned, fallback, call, reported>>

\* line 251: as_completed is called once every task is submitted; the futures
\* finished by then are yielded first, in no particular order
BeginCollect ==
    /\ opc = "submit"
    /\ opc' = "loop"
    /\ early' = {c \in Titles : fut[c].st \in {"done", "raised"}}
    /\ UNCHANGED <<disk, run, mode, xc, book, ret, existing, content, completed, nextTask, fut,
                   doneQ, wk, zj, cs, tcs, refreshes, path, artifact, safe, atStart,
                   netReq, prev, events, chapter_title, page, returned, fallback, call, reported>>

\* an event carrying the count as it was before the increment of line 264
progress_event_stale(current, total, title) ==
    [n |-> current - 1, total |-> total, title |-> title]

\* lines 266-271 (and 338-343, 507-512, 561-566): the arguments of
\* progress_callback; lines 285-287: the closing call names no chapter (0)
progress_event(current, total, title) ==
    [n |-> current, total |-> total, title |-> title]

\* a finally block that sends its event whatever the count
finally_always(completed_chapters, total_chapters) ==
    <<progress_event(total_chapters, total_chapters, 0)>>

\* lines 283-287 and 356-359: the progress calls of the finally block
finally_event(completed_chapters, total_chapters) ==
    IF completed_chapters < total_chapters
    THEN <<progress_event(total_chapters, total_chapters, 0)>>
    ELSE << >>

\* a handler for request errors only
caught_transport_only(e) == e = "transport"

\* line 261: `except Exception` takes whatever future.result() raises here
caught(e) == e \in {"transport", "decode", "errstr", "persist"}

\* one iteration of the result loop (lines 251-271) for the future as_completed
\* yields; a periodic save leaves the file opened and truncated (line 259)
Collect(c) ==
    /\ opc = "loop"
    /\ IF early # {} THEN c \in early ELSE doneQ # << >> /\ c = Head(doneQ)
    /\ early' = early \ {c}
    /\ doneQ' = IF early # {} THEN doneQ ELSE Tail(doneQ)
    /\ IF fut[c].st = "done" /\ keeps(fut[c].val)
       THEN /\ content' = Put(content, c, fut[c].val)
            /\ UNCHANGED <<ret, returned, reported>>
            /\ IF UsesStore(mode) /\ periodic_save_due(completed)
               THEN /\ disk' = Truncated
                    /\ opc' = "ckptW"
                    /\ chapter_title' = c
                    /\ UNCHANGED <<completed, events>>
               ELSE /\ completed' = completed + 1
                    /\ events' = Append(events, progress_event(completed', book.total, c))
                    /\ UNCHANGED <<disk, opc, chapter_title>>
       ELSE IF fut[c].st = "done" \/ caught(fut[c].err)
       THEN \* a falsy result, or line 262
            /\ completed' = completed + 1
            /\ events' = Append(events, progress_event(completed', book.total, c))
            /\ reported' = IF fut[c].st = "done" THEN reported ELSE reported \cup {c}
            /\ UNCHANGED <<content, disk, opc, ret, returned, chapter_title>>
       ELSE \* the exception leaves the download: lines 283-287, 143-145
            /\ opc' = "idle"
            /\ ret' = "error"
            /\ returned' = download_novel_returns("exception")
            /\ events' = events \o finally_event(completed, book.total)
            /\ UNCHANGED <<content, disk, completed, chapter_title, reported>>
    /\ UNCHANGED <<run, mode, xc, book, existing, nextTask, fut, wk, zj, cs, tcs,
                   refreshes, path, artifact, safe, atStart, netReq, prev, page, fallback, call>>

\* line 260: json.dump(content), then lines 264-271
CkptDump ==
    /\ opc = "ckptW"
    /\ disk' = FileOf(content)
    /\ safe' = safe \cup ChapterKeys(content)
    /\ completed' = completed + 1
    /\ events' = Append(events, progress_event(completed', book.total, chapter_title))
    /\ chapter_title' = 0
    /\ opc' = "loop"
    /\ UNCHANGED <<run, mode, xc, book, ret, existing, content, nextTask, fut, early, doneQ, wk, zj, cs, tcs, refreshes, path, artifact, atStart, netReq, prev, page, returned, fallback, call, reported>>

LoopOver == opc = "loop" /\ completed = book.total

\* line 274: the final save opens the file
FinalOpen ==
    /\ LoopOver
    /\ UsesStore(mode)
    /\ disk' = Truncated
    /\ opc' = "finalW"
    /\ UNCHANGED <<run, mode, xc, book, ret, existing, content, completed, nextTask, fut, early,
                   doneQ, wk, zj, cs, tcs, refreshes, path, artifact, safe, atStart,
                   netReq, prev, events, chapter_title, page, returned, fallback, call, reported>>

\* lines 275-281: json.dump(content), the output file, 's'; lines 139-141
FinalDump ==
    /\ opc = "finalW"
    /\ disk' = FileOf(content)
    /\ safe' = safe \cup ChapterKeys(content)
    /\ artifact' = render_order(mode, content)
    /\ ret' = "ok"
    /\ returned' = download_novel_returns("s")
    /\ opc' = "idle"
    /\ UNCHANGED <<run, mode, xc, book, existing, content, completed, nextTask, fut, early, doneQ,
                   wk, zj, cs, tcs, refreshes, path, atStart, netReq, prev, events, chapter_title, page, fallback, call, reported>>

\* lines 345-354 and 568-579: the output file of a download without store
Render ==
    /\ LoopOver
    /\ ~UsesStore(mode)
    /\ artifact' = render_order(mode, content)
    /\ ret' = "ok"
    /\ returned' = download_novel_returns("s")
    /\ opc' = "idle"
    /\ UNCHANGED <<disk, run, mode, xc, book, existing, content, completed, nextTask, fut, early,
                   doneQ, wk, zj, cs, tcs, refreshes, path, safe, atStart, netReq, prev, events, chapter_title, page, fallback, call, reported>>

\* the process is killed during a download: its memory is lost, the files
\* stay, and the next call is made on a new instance
Kill ==
    /\ opc # "idle"
    /\ opc' = "idle"
    /\ ret' = "killed"
    /\ returned' = "none"
    /\ prev' = [mode |-> mode, end |-> "killed", safe |-> safe]
    /\ wk' = [w \in Workers |-> IdleWorker]
    /\ fut' = [c \in Titles |-> QueuedFuture]
    /\ existing' = EmptyDict
    /\ content' = EmptyDict
    /\ completed' = 0
    /\ nextTask' = 1
    /\ early' = {}
    /\ doneQ' = << >>
    /\ events' = << >>
    /\ chapter_title' = 0
    /\ reported' = {}
    /\ Fresh
    /\ UNCHANGED <<disk, run, mode, xc, book, artifact, safe, atStart, netReq, page, fallback, call>>

\* ---- failures of the file system and interruptions of the main thread
\* line 260 raises (OSError of json.dump's writes) with the file opened by
\* line 259: the `except Exception` of line 261 takes it and logs the chapter,
\* then lines 264-271
CkptFail ==
    /\ opc = "ckptW"
    /\ reported' = reported \cup {chapter_title}
    /\ completed' = completed + 1
    /\ events' = Append(events, progress_event(completed', book.total, chapter_title))
    /\ chapter_title' = 0
    /\ opc' = "loop"
    /\ UNCHANGED <<disk, run, mode, xc, ret, existing, content, nextTask, fut, early, doneQ, wk,
                   zj, cs, tcs, refreshes, path, artifact, safe, atStart, netReq, prev, page,
                   returned, fallback, call, book>>

\* line 275 raises: the exception leaves _download_txt through the finally
\* of lines 283-287 and download_novel catches it (lines 143-145)
FinalFail ==
    /\ opc = "finalW"
    /\ opc' = "idle"
    /\ ret' = "error"
    /\ returned' = download_novel_returns("exception")
    /\ events' = events \o finally_event(completed, book.total)
    /\ UNCHANGED <<disk, run, mode, xc, existing, content, completed, nextTask, fut, early,
                   doneQ, wk, zj, cs, tcs, refreshes, path, artifact, safe, atStart, netReq,
                   prev, chapter_title, page, fallback, call, reported, book>>

\* KeyboardInterrupt in the main thread while it waits in as_completed
\* (line 251): the with block of the executor is left, which waits for every
\* submitted task (shutdown(wait=True))
Interrupt ==
    /\ opc = "loop"
    /\ ~LoopOver
    /\ opc' = "unwind"
    /\ UNCHANGED <<disk, run, mode, xc, ret, existing, content, completed, nextTask, fut, early,
                   doneQ, wk, zj, cs, tcs, refreshes, path, artifact, safe, atStart, netReq,
                   prev, events, chapter_title, page, returned, fallback, call, reported, book>>

\* the tasks are over: the finally of lines 283-287 (356-359), and the
\* interrupt leaves download_novel, whose handler takes Exception only
Unwound ==
    /\ opc = "unwind"
    /\ nextTask > book.total
    /\ \A w \in Workers : wk[w].pc = "idle"
    /\ opc' = "idle"
    /\ ret' = "interrupted"
    /\ returned' = "none"
    /\ events' = events \o finally_event(completed, book.total)
    /\ UNCHANGED <<disk, run, mode, xc, existing, content, completed, nextTask, fut, early,
                   doneQ, wk, zj, cs, tcs, refreshes, path, artifact, safe, atStart, netReq,
                   prev, chapter_title, page, fallback, call, reported, book>>

Next ==
    \/ \E m \in SaveModes, parsed \in BOOLEAN, pg \in Pages, fresh \in BOOLEAN :
          StartRun(m, parsed, pg, fresh)
    \/ InitDump
    \/ BeginCollect
    \/ \E w \in Workers : WorkerStart(w)
    \/ \E w \in Workers : Attempt(w)
    \/ \E c \in Titles : Collect(c)
    \/ CkptDump
    \/ FinalOpen
    \/ FinalDump
    \/ Render
    \/ Kill

Spec == Init /\ [][Next]_vars

\* the downloads of a process that is never killed, from a site that answers
\* each request in any way: the main thread and the pool's threads are
\* scheduled as long as they have something to do, and a request always comes
\* back, with a response or with an error
Step ==
    \/ InitDump
    \/ BeginCollect
    \/ \E w \in Workers : WorkerStart(w)
    \/ \E w \in Workers : Attempt(w)
    \/ \E c \in Titles : Collect(c)
    \/ CkptDump
    \/ FinalOpen
    \/ FinalDump
    \/ Render
NextAlive ==
    \/ \E m \in SaveModes, parsed \in BOOLEAN, pg \in Pages, fresh \in BOOLEAN :
          StartRun(m, parsed, pg, fresh)
    \/ Step
\* ---- the structural fallback of _download_chapter_content (lines 663-677)
\* the characters of its input: the two brackets, the letter p, any other
\* character, the line feed
NL == "\n"
Chars == {"<", ">", "p", "a", NL}

\* content[6:]
slice_from(s, n) == IF Len(s) <= n THEN << >> ELSE SubSeq(s, n + 1, Len(s))

\* str.replace('\n\n', '\n'): non-overlapping occurrences, left to right
RECURSIVE replace_double(_)
replace_double(s) ==
    IF Len(s) < 2 THEN s
    ELSE IF s[1] = NL /\ s[2] = NL THEN <<NL>> \o replace_double(SubSeq(s, 3, Len(s)))
    ELSE <<s[1]>> \o replace_double(Tail(s))

\* a scan that also takes the characters met at depth 1
emits_inside(tmp) == tmp <= 1

\* line 672
emits(tmp) == tmp = 0

\* the body of the for loop (lines 667-675) for character i
scan_char(f, i) ==
    IF i = "<" THEN [f EXCEPT !.tmp = @ + 1]
    ELSE IF i = ">" THEN [f EXCEPT !.tmp = @ - 1]
    ELSE IF emits(f.tmp) THEN [f EXCEPT !.result = Append(@, i)]
    ELSE IF f.tmp = 1 /\ i = "p" THEN [f EXCEPT !.result = replace_double(Append(@, NL))]
    ELSE f

\* lines 663-665
FallbackCall ==
    /\ fallback.pc = "call"
    /\ fallback' = [pc |-> "loop", content |-> slice_from(fallback.content, PrefixLen),
                    pos |-> 1, tmp |-> 1, result |-> << >>]
    /\ UNCHANGED <<disk, run, mode, xc, opc, ret, existing, content, completed, nextTask,
                   fut, early, doneQ, wk, zj, cs, tcs, refreshes, path, artifact, safe, atStart,
                   netReq, prev, events, chapter_title, page, returned, book, call, reported>>

\* lines 666-675: one iteration
FallbackChar ==
    /\ fallback.pc = "loop"
    /\ fallback.pos <= Len(fallback.content)
    /\ fallback' = [scan_char(fallback, fallback.content[fallback.pos]) EXCEPT !.pos = @ + 1]
    /\ UNCHANGED <<disk, run, mode, xc, opc, ret, existing, content, completed, nextTask,
                   fut, early, doneQ, wk, zj, cs, tcs, refreshes, path, artifact, safe, atStart,
                   netReq, prev, events, chapter_title, page, returned, book, call, reported>>

\* line 676
FallbackReturn ==
    /\ fallback.pc = "loop"
    /\ fallback.pos > Len(fallback.content)
    /\ fallback' = [fallback EXCEPT !.pc = "returned"]
    /\ UNCHANGED <<disk, run, mode, xc, opc, ret, existing, content, completed, nextTask,
                   fut, early, doneQ, wk, zj, cs, tcs, refreshes, path, artifact, safe, atStart,
                   netReq, prev, events, chapter_title, page, returned, book, call, reported>>

\* the texts the fallback is called with: every short text, and every text
\* of up to MaxTail characters behind a lead of PrefixLen characters
Strings(n) == UNION {[1..k -> Chars] : k \in 0..n}
Lead == <<"<", "p", ">", "a", "<", "p">>
Inputs == Strings(ShortText) \cup {Lead \o t : t \in Strings(MaxTail)}
FallbackInit ==
    /\ InitWith({[total |-> 1, site |-> "steady", calls |-> 1, finished |-> FALSE]})
    /\ xc = DefaultXc
    /\ call = NoCall
    /\ \E t \in Inputs : fallback = [NoFallback EXCEPT !.pc = "call", !.content = t]
NextFallback == FallbackCall \/ FallbackChar \/ FallbackReturn
FallbackSpec == FallbackInit /\ [][NextFallback]_vars

\* ---- _download_chapter_content request by request (lines 633-697)
\* how the path through an endpoint can end: without exception, or with one
\* raised by the request (transport), by raise_for_status (status), by the
\* parsing of the page (parse), by the reading of the JSON answer (json), or
\* by utils.decode_content (decode)
ReaderEnds == {"ok", "transport", "status", "parse"}
ApiEnds(test_mode) == {"ok", "transport", "json"} \cup (IF test_mode THEN {} ELSE {"decode"})

\* a request as the site saw it: the endpoint, the loop index of the attempt
\* and how the path through that endpoint ended
Request(ep, attempt, end) == [ep |-> ep, attempt |-> attempt, end |-> end, ok |-> end = "ok"]

\* an except clause that goes straight to the next attempt
skips_secondary(ok) == IF ok THEN "decode" ELSE "sleep"

\* lines 639-652 and 679: where the attempt goes after the reader request
after_primary(ok) == IF ok THEN "decode" ELSE "secondary"

\* lines 693-697: the end of an attempt whose api path raised
after_both_failed(c) ==
    IF c.attempt = Attempts - 1
    THEN IF c.test_mode THEN [c EXCEPT !.pc = "returned", !.out = "err"]
         ELSE [c EXCEPT !.pc = "raised"]
    ELSE [c EXCEPT !.pc = "sleep"]

\* lines 641-652: the reader page is requested and parsed
PrimaryRequest ==
    /\ call.pc = "primary"
    /\ \E end \in ReaderEnds :
         call' = [call EXCEPT !.pc = after_primary(end = "ok"),
                              !.log = Append(@, Request("reader", call.attempt, end))]
    /\ UNCHANGED <<disk, run, mode, xc, opc, ret, existing, content, completed, nextTask,
                   fut, early, doneQ, wk, zj, cs, tcs, refreshes, path, artifact, safe, atStart,
                   netReq, prev, events, chapter_title, page, returned, fallback, book, reported>>

\* lines 654-677: test_mode returns the page text; otherwise mode 0, mode 1,
\* the tag-stripping loop
DecodePage ==
    /\ call.pc = "decode"
    /\ \E how \in IF call.test_mode THEN {"raw"} ELSE {"mode0", "mode1", "fallback"} :
         call' = [call EXCEPT !.pc = "returned", !.out = how]
    /\ UNCHANGED <<disk, run, mode, xc, opc, ret, existing, content, completed, nextTask,
                   fut, early, doneQ, wk, zj, cs, tcs, refreshes, path, artifact, safe, atStart,
                   netReq, prev, events, chapter_title, page, returned, fallback, book, reported>>

\* lines 681-692: the api is requested, its JSON read, and the text decoded
\* in mode 0 unless test_mode
SecondaryRequest ==
    /\ call.pc = "secondary"
    /\ \E end \in ApiEnds(call.test_mode) :
         LET c == [call EXCEPT !.log = Append(@, Request("api", call.attempt, end))] IN
         call' = IF end = "ok" 
                   THEN [c EXCEPT !.pc = "returned",
                                  !.out = IF c.test_mode THEN "raw" ELSE "mode0"]
                   ELSE after_both_failed(c)
    /\ UNCHANGED <<disk, run, mode, xc, opc, ret, existing, content, completed, nextTask,
                   fut, early, doneQ, wk, zj, cs, tcs, refreshes, path, artifact, safe, atStart,
                   netReq, prev, events, chapter_title, page, returned, fallback, book, reported>>

\* line 697 and the next iteration of line 638
NextAttempt ==
    /\ call.pc = "sleep"
    /\ call' = [call EXCEPT !.pc = "primary", !.attempt = @ + 1]
    /\ UNCHANGED <<disk, run, mode, xc, opc, ret, existing, content, completed, nextTask,
                   fut, early, doneQ, wk, zj, cs, tcs, refreshes, path, artifact, safe, atStart,
                   netReq, prev, events, chapter_title, page, returned, fallback, book, reported>>

FetchInit ==
    /\ InitWith({[total |-> 1, site |-> "steady", calls |-> 1, finished |-> FALSE]})
    /\ xc = DefaultXc
    /\ fallback = NoFallback
    /\ \E t \in BOOLEAN : call = [NoCall EXCEPT !.pc = "primary", !.test_mode = t]
NextFetch == PrimaryRequest \/ DecodePage \/ SecondaryRequest \/ NextAttempt
FetchSpec == FetchInit /\ [][NextFetch]_vars

\* the downloads of a process whose pool threads interleave inside
\* _download_chapter, from a site that answers a whole call the same way
RaceBooks == {[total |-> k, site |-> "steady", calls |-> 1, finished |-> FALSE] : k \in SmallBook..SmallBook + 1}
RaceInit == InitWith(RaceBooks) /\ fallback = NoFallback /\ call = NoCall
NextRace ==
    \/ \E m \in SaveModes, parsed \in BOOLEAN, pg \in Pages, fresh \in BOOLEAN :
          StartRun(m, parsed, pg, fresh)
    \/ InitDump
    \/ BeginCollect
    \/ \E w \in Workers : WorkerStart(w)
    \/ \E w \in Workers : AttemptLoad(w)
    \/ \E w \in Workers : AttemptStore(w)
    \/ \E c \in Titles : Collect(c)
    \/ CkptDump
    \/ FinalOpen
    \/ FinalDump
    \/ Render
RaceSpec == RaceInit /\ [][NextRace]_vars

\* one download of a long book, by the default pool of one worker, from a
\* site some of whose pages are blank
BlankBooks == {[total |-> NumChapters, site |-> "blank", calls |-> 1, finished |-> FALSE]}
BlankInit ==
    /\ InitWith(BlankBooks)
    /\ xc = DefaultXc
    /\ fallback = NoFallback
    /\ call = NoCall
BlankSpec == BlankInit /\ [][NextAlive]_vars

\* a one-chapter book whose serialization is finished or still going on
StatusBooks ==
    {[total |-> 1, site |-> "steady", calls |-> 1, finished |-> f] : f \in BOOLEAN}
StatusInit == InitWith(StatusBooks) /\ fallback = NoFallback /\ call = NoCall
StatusSpec == StatusInit /\ [][NextAlive]_vars

\* downloads of a short book during which writes of the store file can fail
\* and the main thread can be interrupted
FaultBooks == {[total |-> SmallBook, site |-> "steady", calls |-> 1, finished |-> FALSE]}
FaultInit == InitWith(FaultBooks) /\ fallback = NoFallback /\ call = NoCall
NextFault == NextAlive \/ CkptFail \/ FinalFail \/ Interrupt \/ Unwound
FaultSpec == FaultInit /\ [][NextFault]_vars

LiveBooks ==
    {[total |-> SmallBook, site |-> "mixed", calls |-> 1, finished |-> FALSE],
     [total |-> 1, site |-> "any", calls |-> MaxRuns, finished |-> FALSE]}
LiveInit == InitWith(LiveBooks) /\ fallback = NoFallback /\ call = NoCall
LiveSpec == LiveInit /\ [][NextAlive]_vars /\ WF_vars(Step)

\* ---- the claims
InList == 1..book.total
ChapterEntries(d) == {<<d[i].k, d[i].v>> : i \in {j \in 1..Len(d) : d[j].k # Meta}}
IsAscending(q) == \A i, j \in 1..Len(q) : i < j => q[i] < q[j]
Ended == opc = "idle" /\ run >= 1
\* a step of the download itself: anything but a new call or the kill
RunStep == Step

\* C1: in every save mode, a chapter whose title is a key of the book's store
\* record is not requested from either endpoint, and its fetch returns the
\* stored content.
C1_StoredNotRefetched ==
    \A c \in InList :
        (atStart.st = "ok" /\ Has(atStart.rec, c)) =>
            /\ c \notin netReq
            /\ fut[c].st = "done" => fut[c].val = Get(atStart.rec, c)

\* C2: whenever a download may be interrupted, the store file holds every
\* chapter it held when the download started and every chapter a finished
\* checkpoint of this download wrote.
C2_Durable == safe \subseteq ChapterKeys(disk.rec)

\* C3: the output file presents the chapters in the order of the chapter
\* list, whatever the order the fetches completed in.
C3_ListOrder == (Ended /\ ret = "ok") => IsAscending(artifact)

\* C4: a chapter fetch that used up its retries is taken by the result loop:
\* the download never ends with an error because of it, it goes on while
\* chapters are left (some step of the download is always possible), and when
\* it returns every chapter of the list was attempted and counted, the final
\* save wrote the collected content and the output file was produced from it.
C4_FailureIsolated ==
    /\ ret = "error" => (UsesStore(mode) /\ atStart.st = "partial")
    /\ opc # "idle" => ENABLED RunStep
    /\ (Ended /\ ret = "ok") =>
          /\ \A c \in InList : fut[c].st \in {"done", "raised"}
          /\ completed = book.total
          /\ UsesStore(mode) => disk = FileOf(content)
          /\ artifact = render_order(mode, content)
C4_Witness ==
    /\ Ended /\ ret = "ok" /\ UsesStore(mode)
    /\ \E c, d \in InList :
          /\ fut[c].st = "raised"
          /\ fut[d].st = "done" /\ Has(disk.rec, d)

\* C5: a chapter that is not in the store is attempted at most 3 times: a
\* worker about to request it has made fewer than 3 attempts on it.
C5_ThreeAttempts == \A w \in Workers : wk[w].pc = "fetch" => wk[w].n < Attempts

\* C6: no attempt fails, and no chapter ends unavailable, because of a decode
\* error.
C6_DecodeNeverFatal ==
    /\ \A w \in Workers : wk[w].err # "decode"
    /\ \A c \in Titles : fut[c].err # "decode"

\* C7: every failed attempt is counted: the failure counter, with the 7
\* failures each refresh took off it, covers the failed attempts of every
\* chapter being fetched.
C7_FailuresCounted == \A w \in Workers : tcs + TcsLimit * refreshes >= wk[w].n

\* C8: a second completed download of the book, in the same save mode as a
\* first completed one, requests no chapter, and the chapter entries of the
\* store record are the ones the first download left.
C8_Idempotent ==
    (Ended /\ ret = "ok" /\ prev.end = "ok" /\ prev.mode = mode) =>
        /\ netReq = {}
        /\ ChapterEntries(disk.rec) = ChapterEntries(atStart.rec)

\* C9: a download restarted after one that was killed after a checkpoint
\* requests exactly the chapters absent from the store file, and the record
\* it leaves holds the chapters of that file and those it fetched.
C9_Resume ==
    (Ended /\ ret \in {"ok", "error"} /\ UsesStore(mode)
        /\ prev.end = "killed" /\ UsesStore(prev.mode) /\ prev.safe # {}) =>
        /\ netReq = InList \ ChapterKeys(atStart.rec)
        /\ ChapterKeys(atStart.rec) \subseteq ChapterKeys(disk.rec)
        /\ \A c \in InList :
              (fut[c].st = "done" /\ Truthy(fut[c].val)) => Has(disk.rec, c)

\* C10: a periodic save is written when the count of completions reaches a
\* multiple of 5.
C10_EveryFifth == opc = "ckptW" => (completed + 1) % SaveEvery = 0

\* C11: once every future of a TXT download has been processed the final save
\* is the next step, however many chapters failed, and after it the store
\* file is a complete record holding the metadata block of this download,
\* every chapter entry the file held when the download started and every
\* chapter fetched with non-empty text in this download.
C11_FinalSave ==
    /\ (LoopOver /\ UsesStore(mode)) => ENABLED FinalOpen
    /\ opc = "finalW" => ENABLED FinalDump
    /\ (Ended /\ ret = "ok" /\ UsesStore(mode)) =>
          /\ disk.st = "ok"
          /\ Has(disk.rec, Meta) /\ Get(disk.rec, Meta) = MetaBlock(run)
          /\ ChapterEntries(atStart.rec) \subseteq ChapterEntries(disk.rec)
          /\ \A c \in InList :
                (fut[c].st = "done" /\ Truthy(fut[c].val)) =>
                    (Has(disk.rec, c) /\ Get(disk.rec, c) = fut[c].val)
C11_Witness ==
    /\ Ended /\ ret = "ok" /\ UsesStore(mode)
    /\ \E c, d \in InList :
          /\ Has(atStart.rec, c) /\ Has(disk.rec, c)
          /\ d \in netReq /\ ~Has(atStart.rec, d) /\ Has(disk.rec, d)

\* C12: the current download has made exactly one progress call per processed
\* chapter, failed or not: the i-th call carries the count i, the length of
\* the chapter list and the title of a chapter of the list, no title is
\* carried twice, and when the download returns every chapter of the list has
\* its call.
C12_OneEventPerChapter ==
    /\ Running \/ opc = "finalW" \/ (Ended /\ ret = "ok") => Len(events) = completed
    /\ \A i \in 1..Len(events) :
          /\ events[i].n = i
          /\ events[i].n <= book.total
          /\ events[i].total = book.total
          /\ events[i].title \in InList
    /\ \A i, j \in 1..Len(events) : events[i].title = events[j].title => i = j
    /\ (Ended /\ ret = "ok") => {events[i].title : i \in 1..Len(events)} = InList
C12_Witness ==
    /\ Ended /\ ret = "ok" /\ book.total >= 2
    /\ Len(events) = book.total
    /\ events[1].title # 1
    /\ \E i \in 1..Len(events) : fut[events[i].title].st = "raised"

Fetching == {w \in Workers : wk[w].pc = "fetch"}
C14_BoundedPool ==
    /\ [](Cardinality(Fetching) <= xc /\ xc >= DefaultXc)
    /\ [][\A w \in Workers :
            (wk[w].pc = "fetch" /\ wk'[w] # wk[w]) =>
                \/ wk'[w].pc = "fetch" /\ wk'[w].ch = wk[w].ch
                \/ wk'[w] = IdleWorker /\ fut'[wk[w].ch].st \in {"done", "raised"}
                \/ ret' = "killed"]_vars
C14_Witness ==
    /\ xc = 2 /\ Cardinality(Fetching) = 2
    /\ nextTask <= book.total

C16_Terminates ==
    /\ [](\A w \in Workers : wk[w].n <= Retries * Attempts)
    /\ (opc # "idle") ~>
          (Ended /\ ret = "ok" /\ \A c \in InList : fut[c].st \in {"done", "raised"})
C16_Witness ==
    /\ Ended /\ ret = "ok"
    /\ \E c \in InList : fut[c].st = "raised" /\ fut[c].err = "transport"
    /\ \E c \in InList : fut[c].st = "done"

\* C17: no success is lost from the count of the chapter fetcher: in a first
\* TXT download, whenever no worker is between the load and the store of the
\* counter, the counter is the number of chapters fetched so far, taken
\* modulo 5.
C17_NoSuccessLost ==
    (run = 1 /\ UsesStore(mode) /\ opc # "idle" /\ \A w \in Workers : wk[w].pc # "incr") =>
        cs = Len(zj) % CsLimit

\* C18: every download that gets as far as dispatching chapters, in any save
\* mode and after any earlier call, starts with the checkpoint counter and
\* the failure counter at 0 and the chapter buffer empty, and, where the
\* mode keeps a store, with the store path of the book being downloaded.
C18_FreshRunState ==
    [][(run' = run + 1 /\ opc' # "idle") =>
          /\ cs' = 0
          /\ tcs' = 0
          /\ zj' = EmptyDict
          /\ UsesStore(mode') => path' = "book"]_vars

\* C19: in a TXT download that found a store record, the record handed to
\* the workers has the chapter entries of the file, key and content, and the
\* metadata block of this run under the reserved key; in one that found no
\* store file, it is the metadata block alone, and that record is in the file
\* before any chapter is dispatched.
C19_MergeKeepsChapters ==
    /\ [](opc # "idle" /\ UsesStore(mode) /\ atStart.st = "ok" =>
            /\ ChapterEntries(existing) = ChapterEntries(atStart.rec)
            /\ ChapterOrder(existing) = ChapterOrder(atStart.rec)
            /\ Has(existing, Meta) /\ Get(existing, Meta) = MetaBlock(run))
    /\ [](opc # "idle" /\ UsesStore(mode) /\ atStart.st = "absent" =>
            /\ existing = <<[k |-> Meta, v |-> MetaBlock(run)]>>
            /\ opc = "initW" =>
                  nextTask = 1 /\ netReq = {} /\ \A w \in Workers : wk[w].pc = "idle")
    /\ [][opc = "initW" /\ opc' \notin {"initW", "idle"} => disk' = FileOf(existing)]_vars
C19_Witness ==
    /\ opc = "submit" /\ UsesStore(mode) /\ atStart.st = "ok"
    /\ ChapterKeys(atStart.rec) # {}
    /\ Get(atStart.rec, Meta) # Get(existing, Meta)

\* the depth the scan is at before character i of s: it starts inside a tag
\* (1), a `<` opens one level and a `>` closes one
Depth(s, i) ==
    1 + Cardinality({j \in 1..i - 1 : s[j] = "<"}) - Cardinality({j \in 1..i - 1 : s[j] = ">"})
NoDouble(s) == \A i \in 1..Len(s) - 1 : ~(s[i] = NL /\ s[i + 1] = NL)
Strip(s) == SelectSeq(s, LAMBDA x : x # NL)
\* C20: on any text, empty and malformed ones included, the structural
\* fallback always has a next step until it returns, and its result is a
\* string; a character of the text is put in the result only outside tag
\* bodies (depth 0 or less) and never a bracket; the p of a paragraph tag
\* opened outside a tag leaves the result ending in a newline, and a newline
\* put in at depth 1 alters no text and doubles no newline.
C20_Fallback ==
    /\ [](fallback.pc # "none" => fallback.result \in Seq(Chars))
    /\ [](fallback.pc \in {"call", "loop"} => ENABLED NextFallback)
    /\ [][fallback.pc = "loop" /\ fallback'.pc = "loop" =>
            LET text == fallback.content
                i == fallback.pos
                was == fallback.result
                now == fallback'.result
            IN  /\ now = Append(was, text[i]) =>
                      Depth(text, i) <= 0 /\ text[i] \notin {"<", ">"}
                /\ now # was => Depth(text, i) <= 1
                /\ (text[i] = "p" /\ i > 1 /\ text[i - 1] = "<" /\ Depth(text, i - 1) = 0) =>
                      now # << >> /\ now[Len(now)] = NL
                /\ (text[i] = "p" /\ Depth(text, i) = 1) =>
                      /\ Strip(now) = Strip(was)
                      /\ NoDouble(was) => NoDouble(now)]_vars
C20_Witness ==
    /\ fallback.pc = "returned"
    /\ fallback.content = <<">", "a", "<", "p", ">">>
    /\ fallback.result = <<"a", NL>>

\* the attempts of the call whose reader path and api path both raised
FailedAttempts ==
    {a \in 0..Attempts - 1 :
        /\ \E i \in 1..Len(call.log) :
             call.log[i].ep = "reader" /\ call.log[i].attempt = a /\ ~call.log[i].ok
        /\ \E i \in 1..Len(call.log) :
             call.log[i].ep = "api" /\ call.log[i].attempt = a /\ ~call.log[i].ok}
\* C21: in a call of _download_chapter_content, every api request directly
\* follows the failed reader request of the same attempt; every failed reader
\* request is directly followed by the api request of that attempt; and the
\* attempts given up so far are exactly those in which both paths failed.
C21_SecondaryAfterPrimary ==
    /\ \A i \in 1..Len(call.log) :
         call.log[i].ep = "api" =>
            /\ i > 1
            /\ call.log[i - 1].ep = "reader" /\ ~call.log[i - 1].ok
            /\ call.log[i - 1].attempt = call.log[i].attempt
    /\ \A i \in 1..Len(call.log) :
         (call.log[i].ep = "reader" /\ ~call.log[i].ok) =>
            IF i = Len(call.log) THEN call.pc = "secondary"
            ELSE call.log[i + 1].ep = "api" /\ call.log[i + 1].attempt = call.log[i].attempt
    /\ call.pc \in {"primary", "decode", "secondary"} => FailedAttempts = 0..call.attempt - 1
    /\ call.pc \in {"sleep", "raised"} => FailedAttempts = 0..call.attempt
    /\ call.pc = "returned" =>
         FailedAttempts = IF call.out = "err" THEN 0..call.attempt ELSE 0..call.attempt - 1
C21_Witness ==
    /\ call.pc = "returned" /\ call.out = "mode0"
    /\ call.log = <<Request("reader", 0, "transport"), Request("api", 0, "decode"),
                    Request("reader", 1, "status"), Request("api", 1, "ok")>>

\* the chapter entries of d that are not entries of the record base
AddedTo(d, base) == {e \in ChapterEntries(d) : e \notin ChapterEntries(base)}
\* C22: during a download every chapter entry that was not in the record
\* handed to the workers, in the content of the result loop and in the store
\* file alike, holds the non-empty text a fetch of this download returned.
C22_OnlyFetchedText ==
    /\ opc # "idle" => \A e \in AddedTo(content, existing) : e[2] = Text(run)
    /\ (opc # "idle" /\ UsesStore(mode) /\ disk.st = "ok") =>
          \A e \in AddedTo(disk.rec, atStart.rec) : e[2] = Text(run)

\* C23: when a download that found the book has returned, download_novel
\* reported the finished outcome exactly if the status label of the book says
\* the serialization is finished.
C23_FinishedReported ==
    (Ended /\ ret = "ok") =>
        (final_message(status_returned(ret, book.finished)) = "novel finished" <=> book.finished)

\* the progress calls of the current download that carry the whole count
FullEvents == {i \in 1..Len(events) : events[i].n = events[i].total}
\* the call made by the finally block: it carries no chapter title
ExtraEvents == {i \in 1..Len(events) : events[i].title = 0}
\* C24: when a download that read the chapter list is over, by return, by an
\* exception or by an interrupt, the last progress call made, if any, carries
\* current = total = length of the list; no other call carries the whole
\* count; and the call of the finally block was made only after fewer
\* per-chapter calls than the list has chapters.
C24_LastEventFull ==
    (Ended /\ ret \in {"ok", "error", "interrupted"}) =>
        /\ events # << >> =>
              /\ events[Len(events)].n = book.total
              /\ events[Len(events)].total = book.total
        /\ FullEvents \subseteq {Len(events)}
        /\ ExtraEvents \subseteq {Len(events)}
        /\ ExtraEvents # {} => Len(events) - 1 < book.total /\ completed < book.total
        /\ completed = book.total => ExtraEvents = {}
C24_Witness ==
    /\ Ended /\ ret = "interrupted"
    /\ Len(events) = 2 /\ events[1].n = 1 /\ ExtraEvents = {2}
    /\ book.total = SmallBook
\* C25: a failed write of a periodic save is not logged as a failed chapter
\* download and loses no chapter: the titles logged as failed are those of
\* futures that raised, none of them is in the content, and no worker fetches
\* a chapter again because a save failed.
C25_CheckpointFailure ==
    /\ \A c \in reported : fut[c].st = "raised" /\ ~Has(content, c)
    /\ \A w \in Workers : wk[w].err # "persist"

\* C26: while the main thread has the store file open for a save no worker
\* writes it, and every complete record a save of the download puts in the
\* file holds every chapter the records written or found before it held.
C26_ExclusiveMonotone ==
    [][/\ (opc \in {"initW", "ckptW", "finalW"} /\ opc' = opc) => disk' = disk
       /\ (opc # "idle" /\ disk' # disk /\ disk'.st = "ok") =>
             safe \subseteq ChapterKeys(disk'.rec)]_vars
====
